---- MODULE Spec2Model ----
(***************************************************************************)
(* Model of src/src/App.js: the bookkeeping form (App component).  State   *)
(* is the component's useState cells plus the record store behind the      *)
(* Firestore SDK, the create/delete requests in flight, the clock and the  *)
(* last file handed to the browser for download.                           *)
(*                                                                         *)
(* Text (description, entity name, amount field, dates, CSV) is a sequence *)
(* of one-character strings; status messages and the enumerations (type,   *)
(* payment method) are plain strings, written without the accents of the  *)
(* source.  Amounts are integers or NaN: the modelled amount field holds   *)
(* no "." or exponent.                                                     *)
(***************************************************************************)
EXTENDS Integers, Sequences, FiniteSets, TLC

VARIABLES
    db,                  \* useState(null): Firestore handle          (line 15)
    userId,              \* useState(null)                            (line 17)
    isAuthReady,         \* useState(false)                           (line 18)
    entries,             \* useState([]): records in memory           (line 21)
    type,                \* useState('ingreso')                       (line 22)
    specificDescription, \* useState('')                              (line 25)
    specificEntityName,  \* useState('')                              (line 26)
    amount,              \* useState(''): text of the amount field    (line 27)
    entryDate,           \* useState(today)                           (line 28)
    paymentMethod,       \* useState('Efectivo')                      (line 29)
    balance,             \* useState(0)                               (line 31)
    message,             \* useState('')                              (line 32)
    mounted,             \* the component is mounted (effect cleanups not run)
    subs,                \* live onSnapshot listeners (user paths)
    store,               \* record store: user path -> set of documents
    pending,             \* addDoc / deleteDoc promises not yet settled
    removed,             \* ids whose delete the gateway has accepted
    now,                 \* the clock, in days since 2024-01-01
    download             \* last file saved by the browser, or NoFile

vars == <<db, userId, isAuthReady, entries, type, specificDescription,
          specificEntityName, amount, entryDate, paymentMethod, balance,
          message, mounted, subs, store, pending, removed, now, download>>

formVars == <<type, specificDescription, specificEntityName, amount,
              entryDate, paymentMethod>>
sessionVars == <<db, userId, isAuthReady, mounted, subs>>
gatewayVars == <<store, pending, removed>>

----------------------------------------------------------------------------
(* Bounds of the model. *)
MaxDocs == 2            \* documents the store ever holds (ids generated)
MaxPendingDeletes == 2  \* delete requests in flight at once
MaxLedgerDeletes == 1   \* of them in the application run
MaxFormDocs == 1        \* documents created in the form-only run
MaxClock == 1           \* days the clock may advance
MaxText == 2            \* characters of a text in the CSV run
MaxRows == 2            \* records exported in the CSV run

----------------------------------------------------------------------------
(* Values. *)
null == "null"
Firestore == "firestore"
\* A number value: an integer, or NaN.
Num(n) == [isNaN |-> FALSE, val |-> n]
NaN == [isNaN |-> TRUE, val |-> 0]
NoFile == [name |-> "", content |-> <<>>]
Users == {"u1", "u2"}
Types == {"ingreso", "gasto", "apoyo"}
Methods == {"Efectivo", "Transferencia", "Tarjeta"}
Ids == 1..MaxDocs      \* document ids the SDK may generate

Apoyo == <<"A", "p", "o", "y", "o">>
Empty == <<>>

MsgNone == ""
MsgInitError == "Error al inicializar la aplicacion. Intenta de nuevo."
MsgLoadError == "Error al cargar los registros contables."
MsgInvalid == "Por favor, completa todos los campos requeridos y asegurate de que el monto sea valido."
MsgNotReady == "La aplicacion no esta lista. Por favor, espera."
MsgAdded == "Registro anadido exitosamente."
MsgAddError == "Error al anadir el registro. Intenta de nuevo."
MsgDeleted == "Registro eliminado exitosamente."
MsgDeleteError == "Error al eliminar el registro. Intenta de nuevo."
MsgNothingToExport == "No hay registros para exportar."
MsgExported == "Registros exportados a CSV."

----------------------------------------------------------------------------
(* Numbers and text. *)
DigitChars == <<"0", "1", "2", "3", "4", "5", "6", "7", "8", "9">>

IsDigit(c) == \E i \in 1..10 : DigitChars[i] = c

DigitVal(c) == (CHOOSE i \in 1..10 : DigitChars[i] = c) - 1

\* Length of the longest prefix of s made of digits.
RECURSIVE DigitPrefixLen(_)
DigitPrefixLen(s) ==
    IF s = <<>> \/ ~IsDigit(Head(s)) THEN 0 ELSE 1 + DigitPrefixLen(Tail(s))

\* Value of a sequence of digits.
RECURSIVE DigitsVal(_)
DigitsVal(s) ==
    IF s = <<>> THEN 0
    ELSE 10 * DigitsVal(SubSeq(s, 1, Len(s) - 1)) + DigitVal(s[Len(s)])

\* parseFloat on text: optional sign, then the longest run of digits; NaN
\* when no digit follows.  Trailing text is ignored, as parseFloat does.
ParseFloat(s) ==
    LET signed == s # <<>> /\ Head(s) \in {"-", "+"}
        body == IF signed THEN Tail(s) ELSE s
        n == DigitPrefixLen(body)
        v == DigitsVal(SubSeq(body, 1, n))
    IN  IF n = 0 THEN NaN
        ELSE IF signed /\ Head(s) = "-" THEN Num(0 - v) ELSE Num(v)

\* Decimal digits of a natural number.
RECURSIVE NatToChars(_)
NatToChars(n) ==
    IF n < 10 THEN <<DigitChars[n + 1]>>
    ELSE NatToChars(n \div 10) \o <<DigitChars[(n % 10) + 1]>>

\* String(v) for a number value.
NumToChars(v) ==
    IF v.isNaN THEN <<"N", "a", "N">>
    ELSE IF v.val < 0 THEN <<"-">> \o NatToChars(0 - v.val)
    ELSE NatToChars(v.val)

\* parseFloat applied to a number: the number is converted to text first.
ParseFloatNum(v) == ParseFloat(NumToChars(v))

\* JavaScript arithmetic and comparison on number values: NaN absorbs, and
\* every comparison with NaN is false.
Plus(a, b) == IF a.isNaN \/ b.isNaN THEN NaN ELSE Num(a.val + b.val)
Minus(a, b) == IF a.isNaN \/ b.isNaN THEN NaN ELSE Num(a.val - b.val)
LeqZero(v) == ~v.isNaN /\ v.val <= 0

\* Number.prototype.toFixed(2) on an integer-valued number.
ToFixed2(v) == NumToChars(v) \o <<".", "0", "0">>

\* new Date().toISOString().split('T')[0] at clock value t.
ISODate(t) ==
    <<"2", "0", "2", "4", "-", "0", "1", "-">>
        \o (IF t + 1 < 10 THEN <<"0">> ELSE <<>>) \o NatToChars(t + 1)

\* new Date(timestamp).toLocaleDateString(): month/day/year.
LocaleDate(t) == <<"1", "/">> \o NatToChars(t + 1) \o <<"/", "2", "0", "2", "4">>

----------------------------------------------------------------------------
(* The record store behind the SDK. *)

\* Ids of a set of documents.
IdsOf(docs) == {d.id : d \in docs}

\* Ids that name a document somewhere: stored, being created, or deleted.
UsedIds ==
    UNION {IdsOf(store[u]) : u \in Users}
        \cup {r.doc.id : r \in {q \in pending : q.kind = "create"}}
        \cup removed

\* A number no request in flight carries.
FreshRid ==
    CHOOSE n \in 1..(Cardinality(pending) + 1) : \A q \in pending : q.rid # n

PendingDeletes == {q \in pending : q.kind = "delete"}

\* snapshot.docs of an unordered query: the documents in ascending id order.
RECURSIVE Docs(_)
Docs(docs) ==
    IF docs = {} THEN <<>>
    ELSE LET first == CHOOSE d \in docs : \A e \in docs : d.id <= e.id
         IN  <<first>> \o Docs(docs \ {first})

----------------------------------------------------------------------------
(* calculateBalance, lines 108-118. *)

\* BalanceStep with support entries counted as expenses.
BalanceStepSupportSubtracts(acc, entry) ==
    LET amountValue == ParseFloatNum(entry.amount)
    IN  IF entry.type = "ingreso"
        THEN Plus(acc, amountValue)
        ELSE Minus(acc, amountValue)

\* One step of the reducer (lines 109-116).
BalanceStep(acc, entry) ==
    LET amountValue == ParseFloatNum(entry.amount)
    IN  IF entry.type = "ingreso" \/ entry.type = "apoyo"
        THEN Plus(acc, amountValue)
        ELSE Minus(acc, amountValue)

\* currentEntries.reduce(..., 0), left to right.
RECURSIVE CalculateBalance(_)
CalculateBalance(currentEntries) ==
    IF currentEntries = <<>> THEN Num(0)
    ELSE BalanceStep(
             CalculateBalance(SubSeq(currentEntries, 1, Len(currentEntries) - 1)),
             currentEntries[Len(currentEntries)])

----------------------------------------------------------------------------
(* Session: the auth listener (lines 48-66) and the subscription effect    *)
(* (lines 76-96).                                                          *)

\* SubscriptionEffect without the cleanup of line 94.
SubscriptionEffectNoCleanup(d, u, r) ==
    IF <<d, u, r>> = <<db, userId, isAuthReady>> THEN subs
    ELSE subs \cup (IF d # null /\ u # null /\ r THEN {u} ELSE {})

\* The effect of lines 76-96 after a render with handles d, u, r: when a
\* dependency changed the previous listener is cleaned up (line 94) and a
\* new one is registered if all three are set (line 77).
SubscriptionEffect(d, u, r) ==
    IF <<d, u, r>> = <<db, userId, isAuthReady>> THEN subs
    ELSE (subs \ {userId}) \cup (IF d # null /\ u # null /\ r THEN {u} ELSE {})

\* onAuthStateChanged callback with a signed-in user (lines 49-50, 65).
AuthStateChanged(user) ==
    /\ mounted
    /\ db # null
    /\ userId' = user
    /\ isAuthReady' = TRUE
    /\ subs' = SubscriptionEffect(db, user, TRUE)
    /\ UNCHANGED <<db, mounted, entries, formVars, balance, message,
                   gatewayVars, now, download>>

\* onAuthStateChanged callback with no user (lines 51-65): the sign-in is
\* requested and the ready flag is set; userId is left as it is.
AuthStateChangedNoUser ==
    /\ mounted
    /\ db # null
    /\ isAuthReady' = TRUE
    /\ subs' = SubscriptionEffect(db, userId, TRUE)
    /\ UNCHANGED <<db, userId, mounted, entries, formVars, balance, message,
                   gatewayVars, now, download>>

\* The component unmounts: the cleanups of both effects run, line 68 for
\* the auth listener and line 94 for the record listener.
Unmount ==
    /\ mounted
    /\ mounted' = FALSE
    /\ subs' = {}
    /\ UNCHANGED <<db, userId, isAuthReady, entries, formVars, balance,
                   message, gatewayVars, now, download>>

\* NewEntries merging the snapshot into the records already in memory.
NewEntriesMerged(u) ==
    entries \o SelectSeq(Docs(store[u]),
                         LAMBDA d : \A i \in 1..Len(entries) : entries[i].id # d.id)

\* newEntries of lines 83-86: the snapshot's documents, nothing else.
NewEntries(u) == Docs(store[u])

\* onSnapshot success callback (lines 82-88) for the listener on u's path.
OnSnapshot(u) ==
    /\ u \in subs
    /\ LET newEntries == NewEntries(u)
       IN  /\ entries' = newEntries
           /\ balance' = CalculateBalance(newEntries)
    /\ UNCHANGED <<sessionVars, formVars, message, gatewayVars, now, download>>

\* OnSnapshotError that also empties the records and the balance.
OnSnapshotErrorClears(u) ==
    /\ u \in subs
    /\ message' = MsgLoadError
    /\ entries' = <<>>
    /\ balance' = Num(0)
    /\ UNCHANGED <<sessionVars, formVars, gatewayVars, now, download>>

\* onSnapshot error callback (lines 89-92).
OnSnapshotError(u) ==
    /\ u \in subs
    /\ message' = MsgLoadError
    /\ UNCHANGED <<sessionVars, entries, formVars, balance, gatewayVars, now,
                   download>>

----------------------------------------------------------------------------
(* The form. *)

\* Description default for a category (lines 100 and 147).
DefaultDescription(t) == IF t = "apoyo" THEN Apoyo ELSE Empty

\* SetType with the date left as it was.
SetTypeKeepsDate(t) ==
    /\ t # type
    /\ type' = t
    /\ specificDescription' = DefaultDescription(t)
    /\ specificEntityName' = Empty
    /\ amount' = Empty
    /\ paymentMethod' = "Efectivo"
    /\ UNCHANGED <<sessionVars, entries, entryDate, balance, message,
                   gatewayVars, now, download>>

\* SetType with the payment method left as it was.
SetTypeKeepsMethod(t) ==
    /\ t # type
    /\ type' = t
    /\ specificDescription' = DefaultDescription(t)
    /\ specificEntityName' = Empty
    /\ amount' = Empty
    /\ entryDate' = ISODate(now)
    /\ UNCHANGED <<sessionVars, entries, paymentMethod, balance, message,
                   gatewayVars, now, download>>

\* Radio onChange: setType, then the effect of lines 99-105 after the
\* render.  A radio fires onChange only when the selection changes.
SetType(t) ==
    /\ t # type
    /\ type' = t
    /\ specificDescription' = DefaultDescription(t)
    /\ specificEntityName' = Empty
    /\ amount' = Empty
    /\ entryDate' = ISODate(now)
    /\ paymentMethod' = "Efectivo"
    /\ UNCHANGED <<sessionVars, entries, balance, message, gatewayVars, now,
                   download>>

SetSpecificDescription(v) ==
    /\ specificDescription' = v
    /\ UNCHANGED <<sessionVars, entries, type, specificEntityName, amount,
                   entryDate, paymentMethod, balance, message, gatewayVars,
                   now, download>>

SetSpecificEntityName(v) ==
    /\ specificEntityName' = v
    /\ UNCHANGED <<sessionVars, entries, type, specificDescription, amount,
                   entryDate, paymentMethod, balance, message, gatewayVars,
                   now, download>>

SetAmount(v) ==
    /\ amount' = v
    /\ UNCHANGED <<sessionVars, entries, type, specificDescription,
                   specificEntityName, entryDate, paymentMethod, balance,
                   message, gatewayVars, now, download>>

SetEntryDate(v) ==
    /\ entryDate' = v
    /\ UNCHANGED <<sessionVars, entries, type, specificDescription,
                   specificEntityName, amount, paymentMethod, balance,
                   message, gatewayVars, now, download>>

\* Payment-method radios offered for a category (lines 380-404, 449-473,
\* 532-556).
MethodsOffered(t) ==
    IF t = "gasto" THEN {"Efectivo", "Tarjeta"}
    ELSE {"Efectivo", "Transferencia"}

SetPaymentMethod(v) ==
    /\ v \in MethodsOffered(type)
    /\ paymentMethod' = v
    /\ UNCHANGED <<sessionVars, entries, type, specificDescription,
                   specificEntityName, amount, entryDate, balance, message,
                   gatewayVars, now, download>>

----------------------------------------------------------------------------
(* addEntry, lines 121-156. *)

\* Rejected without the test of the amount's sign.
RejectedIgnoresSign ==
    \/ specificDescription = Empty
    \/ amount = Empty
    \/ entryDate = Empty
    \/ specificEntityName = Empty

\* The rejection test of line 122 on the current form.
Rejected ==
    \/ specificDescription = Empty
    \/ amount = Empty
    \/ LeqZero(ParseFloat(amount))
    \/ entryDate = Empty
    \/ specificEntityName = Empty

\* NewEntryData with the default payment method instead of the selected one.
NewEntryDataDefaultMethod(id) ==
    [id |-> id,
     description |-> specificDescription,
     amount |-> ParseFloat(amount),
     type |-> type,
     entityName |-> specificEntityName,
     entryDate |-> entryDate,
     paymentMethod |-> "Efectivo",
     timestamp |-> now]

\* newEntryData of lines 134-142, under the id the SDK generates for it.
NewEntryData(id) ==
    [id |-> id,
     description |-> specificDescription,
     amount |-> ParseFloat(amount),
     type |-> type,
     entityName |-> specificEntityName,
     entryDate |-> entryDate,
     paymentMethod |-> paymentMethod,
     timestamp |-> now]

\* The addDoc promise of line 144.  "type" is the category of the render
\* whose addEntry was clicked, which the continuation reads at line 147.
CreateRequest(id) ==
    [kind |-> "create", rid |-> FreshRid, uid |-> userId,
     doc |-> NewEntryData(id), type |-> type]

\* AddEntry that issues nothing while a create is in flight.
AddEntrySuppressedWhilePending ==
    IF Rejected
    THEN /\ message' = MsgInvalid
         /\ UNCHANGED <<sessionVars, entries, formVars, balance, gatewayVars,
                        now, download>>
    ELSE IF db = null \/ userId = null \/ \E q \in pending : q.kind = "create"
    THEN /\ message' = MsgNotReady
         /\ UNCHANGED <<sessionVars, entries, formVars, balance, gatewayVars,
                        now, download>>
    ELSE /\ \E id \in Ids \ UsedIds :
                pending' = pending \cup {[kind |-> "create", rid |-> FreshRid,
                                         uid |-> userId,
                                         doc |-> NewEntryData(id),
                                         type |-> type]}
         /\ UNCHANGED <<sessionVars, entries, formVars, balance, message,
                        store, removed, now, download>>

\* Click on "Anadir Registro": addEntry up to the await of line 144.
AddEntry ==
    IF Rejected
    THEN /\ message' = MsgInvalid
         /\ UNCHANGED <<sessionVars, entries, formVars, balance, gatewayVars,
                        now, download>>
    ELSE IF db = null \/ userId = null
    THEN /\ message' = MsgNotReady
         /\ UNCHANGED <<sessionVars, entries, formVars, balance, gatewayVars,
                        now, download>>
    ELSE /\ \E id \in Ids \ UsedIds :
                pending' = pending \cup {CreateRequest(id)}
         /\ UNCHANGED <<sessionVars, entries, formVars, balance, message,
                        store, removed, now, download>>

\* The form reset of lines 147-151, run by the continuation of request r.
ResetDescription(r) == DefaultDescription(r.type)

\* addDoc resolves: the gateway has stored the document; lines 145-151.
CreateSucceeds(r) ==
    /\ r \in pending /\ r.kind = "create"
    /\ store' = [store EXCEPT ![r.uid] = @ \cup {r.doc}]
    /\ pending' = pending \ {r}
    /\ message' = MsgAdded
    /\ specificDescription' = ResetDescription(r)
    /\ specificEntityName' = Empty
    /\ amount' = Empty
    /\ entryDate' = ISODate(now)
    /\ paymentMethod' = "Efectivo"
    /\ UNCHANGED <<sessionVars, entries, type, balance, removed, now,
                   download>>

\* CreateFails that clears the form as a successful create does.
CreateFailsResetsForm(r) ==
    /\ r \in pending /\ r.kind = "create"
    /\ pending' = pending \ {r}
    /\ message' = MsgAddError
    /\ specificDescription' = ResetDescription(r)
    /\ specificEntityName' = Empty
    /\ amount' = Empty
    /\ entryDate' = ISODate(now)
    /\ paymentMethod' = "Efectivo"
    /\ UNCHANGED <<sessionVars, entries, type, balance, store, removed, now,
                   download>>

\* addDoc rejects: lines 152-155.
CreateFails(r) ==
    /\ r \in pending /\ r.kind = "create"
    /\ pending' = pending \ {r}
    /\ message' = MsgAddError
    /\ UNCHANGED <<sessionVars, entries, formVars, balance, store,
                   removed, now, download>>

----------------------------------------------------------------------------
(* deleteEntry, lines 159-171. *)

\* Click on the delete button of a listed entry (line 617).
DeleteEntry(id) ==
    /\ id \in {entries[i].id : i \in 1..Len(entries)}
    /\ IF db = null \/ userId = null
       THEN /\ message' = MsgNotReady
            /\ UNCHANGED <<sessionVars, entries, formVars, balance,
                           gatewayVars, now, download>>
       ELSE /\ Cardinality(PendingDeletes) < MaxPendingDeletes
            /\ pending' = pending \cup
                   {[kind |-> "delete", rid |-> FreshRid, uid |-> userId,
                     id |-> id]}
            /\ UNCHANGED <<sessionVars, entries, formVars, balance, message,
                           store, removed, now, download>>

\* deleteDoc resolves: the gateway has removed the document; line 166.
DeleteSucceeds(r) ==
    /\ r \in pending /\ r.kind = "delete"
    /\ store' = [store EXCEPT ![r.uid] = {d \in @ : d.id # r.id}]
    /\ removed' = removed \cup {r.id}
    /\ pending' = pending \ {r}
    /\ message' = MsgDeleted
    /\ UNCHANGED <<sessionVars, entries, formVars, balance, now,
                   download>>

\* deleteDoc rejects: lines 167-170.
DeleteFails(r) ==
    /\ r \in pending /\ r.kind = "delete"
    /\ pending' = pending \ {r}
    /\ message' = MsgDeleteError
    /\ UNCHANGED <<sessionVars, entries, formVars, balance, store,
                   removed, now, download>>

----------------------------------------------------------------------------
(* exportToCSV, lines 241-273. *)

\* DoubleQuotes that leaves the text as it is.
DoubleQuotesOmitted(s) == s

\* s.replace(/"/g, '""').
RECURSIVE DoubleQuotes(_)
DoubleQuotes(s) ==
    IF s = <<>> THEN <<>>
    ELSE (IF Head(s) = "\"" THEN <<"\"", "\"">> ELSE <<Head(s)>>)
             \o DoubleQuotes(Tail(s))

\* `"${s ? s.replace(/"/g, '""') : ''}"` (lines 253 and 256).
Quoted(s) == <<"\"">> \o (IF s # <<>> THEN DoubleQuotes(s) ELSE <<>>) \o <<"\"">>

\* Array.prototype.join on a sequence of texts.
RECURSIVE Join(_, _)
Join(parts, sep) ==
    IF parts = <<>> THEN <<>>
    ELSE IF Len(parts) = 1 THEN parts[1]
    ELSE parts[1] \o sep \o Join(Tail(parts), sep)

\* The header cells of line 248; a fixed word is one ordinary symbol.
CsvHeader ==
    <<<<"ID">>, <<"Fecha">>, <<"Descripcion">>, <<"Monto">>, <<"Tipo">>,
      <<"Entidad">>, <<"Metodo de Pago">>>>

\* The cells of one row, lines 250-258.  A zero or NaN amount is falsy.
CsvRow(entry) ==
    <<NatToChars(entry.id),
      LocaleDate(entry.timestamp),
      Quoted(entry.description),
      IF ~entry.amount.isNaN /\ entry.amount.val # 0
          THEN ToFixed2(entry.amount) ELSE <<"0", ".", "0", "0">>,
      <<entry.type>>,
      Quoted(entry.entityName),
      <<entry.paymentMethod>>>>

\* sortedEntries of line 276: by timestamp, most recent first; the sort is
\* stable, so entries with equal timestamps keep their order.
RECURSIVE SortedEntries(_)
SortedEntries(es) ==
    IF es = <<>> THEN <<>>
    ELSE LET i == CHOOSE j \in 1..Len(es) :
                      /\ \A k \in 1..Len(es) : es[k].timestamp <= es[j].timestamp
                      /\ \A k \in 1..(j - 1) : es[k].timestamp < es[j].timestamp
         IN  <<es[i]>> \o SortedEntries(SubSeq(es, 1, i - 1) \o SubSeq(es, i + 1, Len(es)))

\* CsvContent with the rows in display order.
CsvContentSorted(es) ==
    Join(CsvHeader, <<",">>) \o <<"\n">>
        \o Join([i \in 1..Len(es) |->
                     Join(CsvRow(SortedEntries(es)[i]), <<",">>)], <<"\n">>)

\* csvContent of line 261.
CsvContent(es) ==
    Join(CsvHeader, <<",">>) \o <<"\n">>
        \o Join([i \in 1..Len(es) |-> Join(CsvRow(es[i]), <<",">>)], <<"\n">>)

\* Click on "Exportar a CSV".
ExportToCSV ==
    IF Len(entries) = 0
    THEN /\ message' = MsgNothingToExport
         /\ UNCHANGED <<sessionVars, entries, formVars, balance, gatewayVars,
                        now, download>>
    ELSE /\ download' = [name |-> "registros_contables.csv",
                         content |-> CsvContent(entries)]
         /\ message' = MsgExported
         /\ UNCHANGED <<sessionVars, entries, formVars, balance, gatewayVars,
                        now>>

----------------------------------------------------------------------------
(* Time passes. *)
Tick ==
    /\ now < MaxClock
    /\ now' = now + 1
    /\ UNCHANGED <<sessionVars, entries, formVars, balance, message,
                   gatewayVars, download>>

----------------------------------------------------------------------------
(* The state after the first render and the mount effect of lines 38-73:   *)
(* either the handles are set, or initialisation threw and line 71 ran.    *)
Init ==
    /\ \/ db = Firestore /\ message = MsgNone
       \/ db = null /\ message = MsgInitError
    /\ userId = null
    /\ isAuthReady = FALSE
    /\ mounted = TRUE
    /\ entries = <<>>
    /\ type = "ingreso"
    /\ specificDescription = Empty
    /\ specificEntityName = Empty
    /\ amount = Empty
    /\ now = 0
    /\ entryDate = ISODate(0)
    /\ paymentMethod = "Efectivo"
    /\ balance = Num(0)
    /\ subs = {}
    /\ store = [u \in Users |-> {}]
    /\ pending = {}
    /\ removed = {}
    /\ download = NoFile

----------------------------------------------------------------------------
(* What the user types in the application run: one valid value per text    *)
(* field (the description suggested by the placeholder of line 364) and    *)
(* two amounts.                                                            *)
AppUsers == {"u1"}
AppDescriptions == {Apoyo}
AppNames == {<<"n">>}
AppAmounts == {<<"7">>, <<"1", "2">>}

Session ==
    \/ \E u \in AppUsers : AuthStateChanged(u)
    \/ AuthStateChangedNoUser

Pushes ==
    \/ \E u \in Users : OnSnapshot(u)
    \/ \E u \in Users : OnSnapshotError(u)

Completions ==
    \/ \E r \in pending : CreateSucceeds(r)
    \/ \E r \in pending : CreateFails(r)
    \/ \E r \in pending : DeleteSucceeds(r)
    \/ \E r \in pending : DeleteFails(r)

Next ==
    \/ Session
    \/ Pushes
    \/ Completions
    \/ \E t \in Types : SetType(t)
    \/ \E v \in AppDescriptions : SetSpecificDescription(v)
    \/ \E v \in AppNames : SetSpecificEntityName(v)
    \/ \E v \in AppAmounts : SetAmount(v)
    \/ AddEntry
    \/ \E id \in Ids :
          DeleteEntry(id) /\ Cardinality(PendingDeletes') <= MaxLedgerDeletes

Spec == Init /\ [][Next]_vars

----------------------------------------------------------------------------
(* The form and its submission: every kind of content of every field and   *)
(* one document.                                                           *)
FormDescriptions == {Empty, <<"a">>}
FormNames == {Empty, <<"n">>}
FormAmounts == {Empty, <<"0">>, <<"-", "5">>, <<"7">>, <<"a", "b", "c">>}
FormDates == {Empty, <<"2", "0", "2", "3", "-", "1", "2", "-", "3", "1">>}

NextForm ==
    \/ Session
    \/ \E t \in Types : SetType(t)
    \/ \E v \in FormDescriptions : SetSpecificDescription(v)
    \/ \E v \in FormNames : SetSpecificEntityName(v)
    \/ \E v \in FormAmounts : SetAmount(v)
    \/ \E v \in FormDates : SetEntryDate(v)
    \/ \E v \in Methods : SetPaymentMethod(v)
    \/ AddEntry /\ Cardinality(UsedIds') <= MaxFormDocs
    \/ \E r \in pending : CreateSucceeds(r)
    \/ \E r \in pending : CreateFails(r)

SpecForm == Init /\ [][NextForm]_vars

----------------------------------------------------------------------------
(* The form fields, the category radios and the clock.                     *)
NextCategory ==
    \/ \E t \in Types : SetType(t)
    \/ \E v \in FormDescriptions : SetSpecificDescription(v)
    \/ \E v \in FormNames : SetSpecificEntityName(v)
    \/ \E v \in FormAmounts : SetAmount(v)
    \/ \E v \in FormDates : SetEntryDate(v)
    \/ \E v \in Methods : SetPaymentMethod(v)
    \/ Tick

SpecCategory == Init /\ [][NextCategory]_vars

----------------------------------------------------------------------------
(* Export: records created at different times, listed and exported.        *)
NextExport ==
    \/ Session
    \/ \E u \in Users : OnSnapshot(u)
    \/ \E v \in AppDescriptions : SetSpecificDescription(v)
    \/ \E v \in AppNames : SetSpecificEntityName(v)
    \/ \E v \in AppAmounts : SetAmount(v)
    \/ AddEntry
    \/ \E r \in pending : CreateSucceeds(r)
    \/ ExportToCSV
    \/ Tick

SpecExport == Init /\ [][NextExport]_vars

----------------------------------------------------------------------------
(* CSV on its own: record sets whose description and entity name are any   *)
(* non-empty text of letters, commas and double quotes, listed after a     *)
(* push, and exported.                                                     *)
CsvAlphabet == {"a", ",", "\""}

CsvTexts ==
    UNION {[1..n -> CsvAlphabet] : n \in 1..MaxText}

CsvRecord(i, d, n) ==
    [id |-> i, description |-> d, amount |-> Num(7), type |-> "ingreso",
     entityName |-> n, entryDate |-> ISODate(0),
     paymentMethod |-> "Efectivo", timestamp |-> 0]

InitCsv ==
    /\ db = Firestore
    /\ userId = "u1"
    /\ isAuthReady = TRUE
    /\ mounted = TRUE
    /\ subs = {"u1"}
    /\ \E k \in 0..MaxRows :
         \E ds \in [1..k -> CsvTexts], ns \in [1..k -> CsvTexts] :
            entries = [i \in 1..k |-> CsvRecord(i, ds[i], ns[i])]
    /\ store = [u \in Users |->
                   IF u = "u1" THEN {entries[i] : i \in 1..Len(entries)} ELSE {}]
    /\ balance = CalculateBalance(entries)
    /\ message = MsgNone
    /\ type = "ingreso"
    /\ specificDescription = Empty
    /\ specificEntityName = Empty
    /\ amount = Empty
    /\ now = 0
    /\ entryDate = ISODate(0)
    /\ paymentMethod = "Efectivo"
    /\ pending = {}
    /\ removed = {}
    /\ download = NoFile

NextCsv == ExportToCSV

SpecCsv == InitCsv /\ [][NextCsv]_vars

----------------------------------------------------------------------------
(* The balance on its own: the record store already holds up to MaxRows    *)
(* records of any category whose amount is a number or not a number, the   *)
(* session is ready, and the snapshot is pushed.                           *)
BalanceAmounts == {Num(7), Num(12), NaN}

BalanceRecord(i, t, a) ==
    [id |-> i, description |-> Apoyo, amount |-> a, type |-> t,
     entityName |-> <<"n">>, entryDate |-> ISODate(0),
     paymentMethod |-> "Efectivo", timestamp |-> 0]

InitBalance ==
    /\ db = Firestore
    /\ userId = "u1"
    /\ isAuthReady = TRUE
    /\ mounted = TRUE
    /\ subs = {"u1"}
    /\ entries = <<>>
    /\ balance = Num(0)
    /\ \E k \in 0..MaxRows :
         \E ts \in [1..k -> Types], as \in [1..k -> BalanceAmounts] :
            store = [u \in Users |->
                       IF u = "u1"
                       THEN {BalanceRecord(i, ts[i], as[i]) : i \in 1..k}
                       ELSE {}]
    /\ message = MsgNone
    /\ type = "ingreso"
    /\ specificDescription = Empty
    /\ specificEntityName = Empty
    /\ amount = Empty
    /\ now = 0
    /\ entryDate = ISODate(0)
    /\ paymentMethod = "Efectivo"
    /\ pending = {}
    /\ removed = {}
    /\ download = NoFile

NextBalance == \E u \in Users : OnSnapshot(u)

SpecBalance == InitBalance /\ [][NextBalance]_vars

----------------------------------------------------------------------------
(* The session on its own: the record store holds what earlier sessions of *)
(* each user left there (at most one record per user), and the auth        *)
(* listener reports either user, or none, in any order until the component *)
(* unmounts.                                                               *)
SessionStores ==
    {{}} \cup {{BalanceRecord(i, t, a)} : i \in Ids, t \in Types,
                                         a \in {Num(7), Num(12)}}

InitSession ==
    /\ \/ db = Firestore /\ message = MsgNone
       \/ db = null /\ message = MsgInitError
    /\ userId = null
    /\ isAuthReady = FALSE
    /\ mounted = TRUE
    /\ subs = {}
    /\ entries = <<>>
    /\ balance = Num(0)
    /\ store \in [Users -> SessionStores]
    /\ IdsOf(store["u1"]) \cap IdsOf(store["u2"]) = {}
    /\ type = "ingreso"
    /\ specificDescription = Empty
    /\ specificEntityName = Empty
    /\ amount = Empty
    /\ now = 0
    /\ entryDate = ISODate(0)
    /\ paymentMethod = "Efectivo"
    /\ pending = {}
    /\ removed = {}
    /\ download = NoFile

NextSession ==
    \/ \E u \in Users : AuthStateChanged(u)
    \/ AuthStateChangedNoUser
    \/ \E u \in Users : OnSnapshot(u)
    \/ \E u \in Users : OnSnapshotError(u)
    \/ Unmount

SpecSession == InitSession /\ [][NextSession]_vars

----------------------------------------------------------------------------
(* Requests in flight: one user, one valid form content, submits and       *)
(* deletes issued in any order with their completions, and the clock.      *)
PendingAmounts == {<<"7">>}

NextPending ==
    \/ \E u \in AppUsers : AuthStateChanged(u)
    \/ \E u \in Users : OnSnapshot(u)
    \/ \E v \in AppDescriptions : SetSpecificDescription(v)
    \/ \E v \in AppNames : SetSpecificEntityName(v)
    \/ \E v \in PendingAmounts : SetAmount(v)
    \/ AddEntry
    \/ \E id \in Ids : DeleteEntry(id)
    \/ \E r \in pending : CreateSucceeds(r)
    \/ \E r \in pending : DeleteSucceeds(r)
    \/ Tick

SpecPending == Init /\ [][NextPending]_vars

----------------------------------------------------------------------------
(* Properties. *)

\* Reading comma-delimited text with double-quoted fields and doubled
\* internal quotes.  A position is inside quotes when an odd number of
\* quote characters precede it; a comma or a line break outside quotes
\* delimits.
InsideQuotes(t, i) ==
    Cardinality({j \in 1..(i - 1) : t[j] = "\""}) % 2 = 1

Delimiters(t, c) == {i \in 1..Len(t) : t[i] = c /\ ~InsideQuotes(t, i)}

\* The k-th smallest element of a set of numbers.
Nth(P, k) == CHOOSE p \in P : Cardinality({q \in P : q < p}) = k - 1

\* The pieces of t between the delimiters c.
SplitOutsideQuotes(t, c) ==
    LET P == Delimiters(t, c)
        n == Cardinality(P)
        from(k) == IF k = 1 THEN 1 ELSE Nth(P, k - 1) + 1
        to(k) == IF k = n + 1 THEN Len(t) ELSE Nth(P, k) - 1
    IN  [k \in 1..(n + 1) |-> SubSeq(t, from(k), to(k))]

\* A doubled quote read as one quote.
RECURSIVE Undouble(_)
Undouble(f) ==
    IF f = <<>> THEN <<>>
    ELSE IF Len(f) >= 2 /\ f[1] = "\"" /\ f[2] = "\""
    THEN <<"\"">> \o Undouble(SubSeq(f, 3, Len(f)))
    ELSE <<Head(f)>> \o Undouble(Tail(f))

\* The content of a field: a quoted field loses its enclosing quotes.
FieldContent(f) ==
    IF Len(f) >= 2 /\ f[1] = "\"" /\ f[Len(f)] = "\""
    THEN Undouble(SubSeq(f, 2, Len(f) - 1))
    ELSE f

\* The rows of a CSV text, each the sequence of its fields' contents.
ParseCsv(t) ==
    LET lines == SplitOutsideQuotes(t, "\n")
    IN  [r \in 1..Len(lines) |->
            LET cells == SplitOutsideQuotes(lines[r], ",")
            IN  [k \in 1..Len(cells) |-> FieldContent(cells[k])]]

\* Sum of the amounts of the entries of es whose type is in cats.
RECURSIVE SumOf(_, _)
SumOf(es, cats) ==
    IF es = <<>> THEN Num(0)
    ELSE LET rest == SumOf(Tail(es), cats)
         IN  IF Head(es).type \in cats THEN Plus(Head(es).amount, rest) ELSE rest

\* The balance the specification gives for a record set.
StatedBalance(es) ==
    Minus(SumOf(es, {"ingreso", "apoyo"}), SumOf(es, {"gasto"}))

\* C1: in every reachable state the displayed balance is the sum of the
\* income and support amounts minus the sum of the expense amounts of the
\* records in memory, and it is 0 when there are none.
C1_BalanceIsSignedSum ==
    /\ balance = StatedBalance(entries)
    /\ entries = <<>> => balance = Num(0)

\* C1 witness: an income of 12 and an expense of 7 are listed, balance 5.
C1_Witness ==
    /\ Len(entries) = 2
    /\ {entries[1].type, entries[2].type} = {"ingreso", "gasto"}
    /\ \E i \in 1..2 : entries[i].type = "ingreso" /\ entries[i].amount = Num(12)
    /\ \E i \in 1..2 : entries[i].type = "gasto" /\ entries[i].amount = Num(7)
    /\ balance = Num(5)

\* The amount field reads as a number that is zero or negative.
AmountNotPositive ==
    ~ParseFloat(amount).isNaN /\ ParseFloat(amount).val <= 0

\* The amount field reads as a number greater than zero.
AmountPositive ==
    ~ParseFloat(amount).isNaN /\ ParseFloat(amount).val > 0

\* C2: a submit with a zero or negative amount, or with an empty
\* description, name or date, only shows the validation message: no request
\* is issued and the form, the records and the balance stay as they are.
C2_InvalidSubmitRejected ==
    [][(AddEntry /\ (\/ AmountNotPositive
                     \/ specificDescription = Empty
                     \/ specificEntityName = Empty
                     \/ entryDate = Empty))
         => /\ message' = MsgInvalid
            /\ pending' = pending
            /\ store' = store
            /\ UNCHANGED <<formVars, entries, balance>>]_vars

\* C2 witness: the session is ready, only the amount ("0") is wrong, and the
\* validation message is up with nothing sent.
C2_Witness ==
    /\ db # null /\ userId # null
    /\ amount = <<"0">>
    /\ specificDescription # Empty
    /\ specificEntityName # Empty
    /\ entryDate # Empty
    /\ message = MsgInvalid
    /\ pending = {}
    /\ \A u \in Users : store[u] = {}

\* All four validated fields are valid in the specification's sense.
AllFieldsValid ==
    /\ specificDescription # Empty
    /\ specificEntityName # Empty
    /\ entryDate # Empty
    /\ AmountPositive

\* The step issues exactly one request, a create carrying the form's values.
OneCreateOfForm ==
    \E r \in pending' \ pending :
        /\ pending' = pending \cup {r}
        /\ r.kind = "create"
        /\ r.doc.type = type
        /\ r.doc.description = specificDescription
        /\ r.doc.entityName = specificEntityName
        /\ r.doc.entryDate = entryDate
        /\ r.doc.paymentMethod = paymentMethod

\* C3 as stated: a submit with all fields valid issues exactly one create
\* carrying the form's category, description, name, date and method.
C3_ValidSubmitCreates ==
    [][(AddEntry /\ AllFieldsValid) => OneCreateOfForm]_vars

\* C3 amended: it does so when the storage handle and the user identity are
\* set; otherwise it shows the not-ready message and issues nothing.
C3_ValidSubmitCreatesWhenReady ==
    [][(AddEntry /\ AllFieldsValid)
         => IF db # null /\ userId # null
            THEN OneCreateOfForm
            ELSE message' = MsgNotReady /\ pending' = pending]_vars

\* C3 witness: a card expense has just been submitted and is in flight with
\* the values still shown in the form.
C3_Witness ==
    \E r \in pending :
        /\ r.kind = "create"
        /\ type = "gasto" /\ r.doc.type = "gasto"
        /\ paymentMethod = "Tarjeta" /\ r.doc.paymentMethod = "Tarjeta"
        /\ r.doc.description = specificDescription
        /\ r.doc.entityName = specificEntityName
        /\ r.doc.entryDate = entryDate
        /\ r.doc.amount = ParseFloat(amount)

\* C4: every record handed to the gateway's create has an amount that is a
\* number greater than zero, whatever the amount field held.
C4_CreatedAmountPositive ==
    \A r \in pending :
        r.kind = "create" => ~r.doc.amount.isNaN /\ r.doc.amount.val > 0

\* The form defaults of a category at the current date.
FormIsDefaultFor(t) ==
    /\ specificDescription = (IF t = "apoyo" THEN Apoyo ELSE Empty)
    /\ specificEntityName = Empty
    /\ amount = Empty
    /\ entryDate = ISODate(now)
    /\ paymentMethod = "Efectivo"

\* C5: a change of category resets the form: description "Apoyo" for
\* support and empty otherwise, name and amount empty, date the current
\* date, payment method cash.
C5_CategoryChangeResets ==
    [][type' # type => FormIsDefaultFor(type)']_vars

\* C5 witness: on the second day the category was switched to support while
\* the form still held the first day's date.
C5_Witness ==
    /\ type = "apoyo"
    /\ now = 1
    /\ specificDescription = Apoyo
    /\ specificEntityName = Empty
    /\ amount = Empty
    /\ entryDate = ISODate(1)
    /\ paymentMethod = "Efectivo"

\* C6: when a create completes successfully the form is reset to the
\* defaults of the form's category, whatever was changed while it was
\* pending.
C6_SuccessResetsForCategory ==
    [][(\E r \in pending : CreateSucceeds(r))
         => /\ (specificDescription' = Apoyo) <=> (type' = "apoyo")
            /\ specificEntityName' = Empty
            /\ amount' = Empty
            /\ paymentMethod' = "Efectivo"]_vars

\* Entries of a sequence as a set of ids.
EntryIds(es) == {es[i].id : i \in 1..Len(es)}

\* C7: a push after the gateway accepted a delete lists none of the deleted
\* ids and every document still stored, once each, and the balance shown
\* after it is the balance of that list.
C7_PushOmitsDeleted ==
    [][\A u \in Users :
          OnSnapshot(u)
            => /\ EntryIds(entries') \cap removed = {}
               /\ {entries'[i] : i \in 1..Len(entries')} = store[u]
               /\ Len(entries') = Cardinality(store[u])
               /\ balance' = StatedBalance(entries')]_vars

\* C7 witness: document 1 was deleted and a later push lists document 2
\* alone, with its amount as the balance.
C7_Witness ==
    /\ removed = {1}
    /\ Len(entries) = 1
    /\ entries[1].id = 2
    /\ entries[1].type = "ingreso"
    /\ balance = entries[1].amount
    /\ store["u1"] = {entries[1]}

\* C8: a failed create or delete puts its failure message in the status
\* slot, issues no further request, and leaves the records, the balance and
\* the form as they were.
C8_FailureOnlySetsMessage ==
    [][\A r \in pending :
          /\ CreateFails(r)
               => /\ message' = MsgAddError
                  /\ pending' = pending \ {r}
                  /\ store' = store
                  /\ UNCHANGED <<entries, balance, formVars>>
          /\ DeleteFails(r)
               => /\ message' = MsgDeleteError
                  /\ pending' = pending \ {r}
                  /\ store' = store
                  /\ UNCHANGED <<entries, balance, formVars>>]_vars

\* C8 witness: the only create failed; its message is up, nothing is in
\* flight or stored, and the form still holds what was submitted.
C8_Witness ==
    /\ message = MsgAddError
    /\ pending = {}
    /\ \A u \in Users : store[u] = {}
    /\ specificDescription # Empty
    /\ specificEntityName # Empty
    /\ amount = <<"7">>

\* The header row of the export.
StatedHeader ==
    <<<<"ID">>, <<"Fecha">>, <<"Descripcion">>, <<"Monto">>, <<"Tipo">>,
      <<"Entidad">>, <<"Metodo de Pago">>>>

\* C9: exporting an empty record set only reports that there is nothing to
\* export and produces no file; otherwise the file holds the header row and
\* one row per record in the order of the records in memory; either way the
\* records, the balance and the form stay as they are.
C9_ExportRowsInMemoryOrder ==
    [][ExportToCSV
         => /\ UNCHANGED <<entries, balance, formVars, store, pending>>
            /\ IF entries = <<>>
               THEN message' = MsgNothingToExport /\ download' = download
               ELSE LET rows == ParseCsv(download'.content)
                    IN  /\ download'.name = "registros_contables.csv"
                        /\ Len(rows) = Len(entries) + 1
                        /\ rows[1] = StatedHeader
                        /\ \A i \in 1..Len(entries) :
                              /\ Len(rows[i + 1]) = 7
                              /\ rows[i + 1][1] = NatToChars(entries[i].id)]_vars

\* C9 witness: two records are exported oldest first, while the list shows
\* the newest first.
C9_Witness ==
    /\ Len(entries) = 2
    /\ entries[1].timestamp < entries[2].timestamp
    /\ SortedEntries(entries) # entries
    /\ download.name = "registros_contables.csv"
    /\ LET rows == ParseCsv(download.content)
       IN  /\ Len(rows) = 3
           /\ rows[2][1] = NatToChars(entries[1].id)
           /\ rows[3][1] = NatToChars(entries[2].id)

\* C10: reading the exported file back gives, for each record, the
\* description and the entity name it was written from, commas and double
\* quotes included.
C10_CsvRoundTrip ==
    download # NoFile
        => LET rows == ParseCsv(download.content)
           IN  /\ Len(rows) = Len(entries) + 1
               /\ \A i \in 1..Len(entries) :
                     /\ Len(rows[i + 1]) = 7
                     /\ rows[i + 1][3] = entries[i].description
                     /\ rows[i + 1][6] = entries[i].entityName

\* C10 witness: a file was exported from two records, one described by a
\* comma and a quote and one named by a quote and a comma.
C10_Witness ==
    /\ download # NoFile
    /\ Len(entries) = 2
    /\ entries[1].description = <<",", "\"">>
    /\ entries[2].entityName = <<"\"", ",">>
    /\ ParseCsv(download.content)[2][3] = <<",", "\"">>

\* The payment methods the specification allows for each category.
StatedMethods(t) ==
    CASE t = "ingreso" -> {"Efectivo", "Transferencia"}
      [] t = "gasto" -> {"Efectivo", "Tarjeta"}
      [] t = "apoyo" -> {"Efectivo", "Transferencia"}

\* C11: every record handed to the gateway's create, in flight or already
\* stored, carries a payment method allowed for its own category, whatever
\* category switches, method selections and form resets came before.
C11_CreatedMethodAllowed ==
    /\ \A r \in pending :
          r.kind = "create" => r.doc.paymentMethod \in StatedMethods(r.doc.type)
    /\ \A u \in Users : \A d \in store[u] :
          d.paymentMethod \in StatedMethods(d.type)

\* C11 witness: after a switch to support and the choice of transfer, a
\* support record paid by transfer is in flight.
C11_Witness ==
    \E r \in pending :
        /\ r.kind = "create"
        /\ r.doc.type = "apoyo"
        /\ r.doc.paymentMethod = "Transferencia"

\* The records of a sequence whose amount is a valid number.
ValidAmountEntries(es) == SelectSeq(es, LAMBDA e : ~e.amount.isNaN)

\* C12: a record whose amount is not a valid number contributes 0, so the
\* balance shown equals the balance of the records in memory without the
\* records of that kind.
C12_InvalidAmountCountsZero ==
    balance = StatedBalance(ValidAmountEntries(entries))

\* C13: never more than one live record listener; one is live only while
\* the component is mounted and the storage handle, the user identity and
\* the ready flag are all set, and it is the listener of the current user
\* identity, so that the listener of a previous identity is gone once the
\* identity has changed; after the unmount none is live.
C13_OneLiveSubscription ==
    /\ Cardinality(subs) <= 1
    /\ subs # {} => /\ db # null /\ userId # null /\ isAuthReady
                    /\ subs = {userId}
    /\ ~mounted => subs = {}

\* C13 witness: the records of u1 were pushed while u1 was signed in, the
\* identity then changed to u2, and the component has unmounted.
C13_Witness ==
    /\ ~mounted
    /\ userId = "u2"
    /\ isAuthReady
    /\ entries # <<>>
    /\ entries = Docs(store["u1"])
    /\ store["u2"] # store["u1"]

\* C14: the records in memory change only on a push and are then exactly
\* the pushed snapshot, each of its documents once and no record kept from
\* before; a listener failure sets the load-failure message and leaves the
\* records and the balance as they were.
C14_RecordsAreLastSnapshot ==
    [][/\ entries' # entries => \E u \in subs : OnSnapshot(u)
       /\ \A u \in Users :
             /\ OnSnapshot(u)
                  => /\ \A i \in 1..Len(entries') : entries'[i] \in store[u]
                     /\ \A d \in store[u] :
                           Cardinality({i \in 1..Len(entries') :
                                            entries'[i] = d}) = 1
             /\ OnSnapshotError(u)
                  => /\ message' = MsgLoadError
                     /\ UNCHANGED <<entries, balance>>]_vars

\* C14 witness: the listener failed after a push of one record; the store
\* has since gained a second record, and the memory still holds the one
\* pushed and its balance.
C14_Witness ==
    /\ message = MsgLoadError
    /\ Len(entries) = 1
    /\ balance = entries[1].amount
    /\ entries[1] \in store["u1"]
    /\ Cardinality(store["u1"]) = 2

\* Two records agree on every field the form supplies.
SameFormValues(a, b) ==
    /\ a.type = b.type
    /\ a.description = b.description
    /\ a.amount = b.amount
    /\ a.entityName = b.entityName
    /\ a.entryDate = b.entryDate
    /\ a.paymentMethod = b.paymentMethod

\* C15: with a create or delete still in flight, a valid submit adds one
\* more create carrying the form's values and a delete click adds one more
\* delete of the clicked record, the requests already in flight staying as
\* they are; and each create that the gateway accepts stores its own record
\* and leaves the other requests in flight.
C15_PendingDoesNotSuppress ==
    [][/\ (AddEntry /\ AllFieldsValid /\ db # null /\ userId # null
             /\ pending # {})
           => /\ OneCreateOfForm
              /\ Cardinality(pending') = Cardinality(pending) + 1
       /\ \A id \in Ids :
             (DeleteEntry(id) /\ db # null /\ userId # null /\ pending # {})
               => \E r \in pending' \ pending :
                     /\ pending' = pending \cup {r}
                     /\ r.kind = "delete" /\ r.id = id
                     /\ Cardinality(pending') = Cardinality(pending) + 1
       /\ \A r \in pending :
             CreateSucceeds(r)
               => /\ pending' = pending \ {r}
                  /\ r.doc \notin store[r.uid]
                  /\ store' = [store EXCEPT ![r.uid] = @ \cup {r.doc}]]_vars

\* C15 witness: two creates with the same form values are in flight at
\* once, under different ids.
C15_Witness ==
    \E r1, r2 \in pending :
        /\ r1.kind = "create" /\ r2.kind = "create"
        /\ r1.doc.id # r2.doc.id
        /\ r1.rid # r2.rid
        /\ SameFormValues(r1.doc, r2.doc)

====
